---- MODULE Spec2Model ----
(***************************************************************************)
(* zkeys: display Zsh key bindings in more human-readable formats.         *)
(*                                                                         *)
(* A model of src/src/zkeys.py: parse_bindkey, the Keybinding comparison   *)
(* keys, the four display functions and the part of main() that runs them. *)
(* A Python str is modelled as a sequence of one-character strings, so     *)
(* that slicing, padding, stripping and code point comparison are computed *)
(* character by character, as the interpreter computes them.               *)
(***************************************************************************)
EXTENDS Integers, Sequences, FiniteSets, TLC

VARIABLES
    input_lines,    \* main: the lines of the file, or of the output of bindkey -L
    lines_read,     \* parse_bindkey: how many of them its loop has consumed
    bindings,       \* main: the Keybinding objects parsed so far
    mode,           \* main: which of args.widget / args.prefix / args.in_string is set
    rows,           \* the display generator: the rows it makes its lines from
    output_lines,   \* main: the lines the display generator has still to yield
    stdout,         \* the lines printed so far
    error,          \* the exception that ended the run, "none" while there is none
    pc              \* position in main: "parse", "display", "print", "done"

vars == <<input_lines, lines_read, bindings, mode, rows, output_lines, stdout, error, pc>>

----------------------------------------------------------------------------
(* Python str primitives *)

\* The printable ASCII characters, in code point order (32..126). The character
\* 96 cannot be written in a string of this language: "grave" stands for it.
ASCII ==
    <<" ", "!", "\"", "#", "$", "%", "&", "'", "(", ")", "*", "+", ",", "-", ".", "/",
      "0", "1", "2", "3", "4", "5", "6", "7", "8", "9", ":", ";", "<", "=", ">", "?",
      "@", "A", "B", "C", "D", "E", "F", "G", "H", "I", "J", "K", "L", "M", "N", "O",
      "P", "Q", "R", "S", "T", "U", "V", "W", "X", "Y", "Z", "[", "\\", "]", "^", "_",
      "grave", "a", "b", "c", "d", "e", "f", "g", "h", "i", "j", "k", "l", "m", "n", "o",
      "p", "q", "r", "s", "t", "u", "v", "w", "x", "y", "z", "{", "|", "}", "~">>

Chars == {ASCII[i] : i \in 1..Len(ASCII)}

\* ord(c): the code point of a character.
ord == [c \in Chars |-> (CHOOSE i \in 1..Len(ASCII) : ASCII[i] = c) + 31]

\* str.upper() of one character: a..z map to A..Z, every other character to itself.
upper(c) == IF ord[c] >= ord["a"] /\ ord[c] <= ord["z"] THEN ASCII[ord[c] - 63] ELSE c

\* s1 < s2 on str: lexicographic by code point, a proper prefix being smaller.
RECURSIVE StrLess(_, _)
StrLess(s1, s2) ==
    IF s2 = <<>> THEN FALSE
    ELSE IF s1 = <<>> THEN TRUE
    ELSE IF Head(s1) # Head(s2) THEN ord[Head(s1)] < ord[Head(s2)]
    ELSE StrLess(Tail(s1), Tail(s2))

\* f"{s:{width}}": s left-justified in a field of width, padded with spaces;
\* a longer s is left as it is.
RECURSIVE format(_, _)
format(s, width) == IF Len(s) >= width THEN s ELSE format(Append(s, " "), width)

\* The characters str.strip() removes, among those of ASCII.
Whitespace == {" "}

RECURSIVE rstrip(_)
rstrip(s) ==
    IF s # <<>> /\ s[Len(s)] \in Whitespace THEN rstrip(SubSeq(s, 1, Len(s) - 1)) ELSE s

RECURSIVE lstrip(_)
lstrip(s) == IF s # <<>> /\ Head(s) \in Whitespace THEN lstrip(Tail(s)) ELSE s

\* str.strip(): whitespace removed at both ends.
strip(s) == lstrip(rstrip(s))

\* sep.join(strs)
RECURSIVE join(_, _)
join(sep, strs) ==
    IF strs = <<>> THEN <<>>
    ELSE IF Len(strs) = 1 THEN strs[1]
    ELSE strs[1] \o sep \o join(sep, Tail(strs))

\* s.replace(ch, ""): every occurrence of the character removed.
RECURSIVE remove(_, _)
remove(s, ch) ==
    IF s = <<>> THEN <<>>
    ELSE IF Head(s) = ch THEN remove(Tail(s), ch)
    ELSE <<Head(s)>> \o remove(Tail(s), ch)

\* max() of a non-empty collection of integers.
max(S) == CHOOSE m \in S : \A n \in S : n <= m

----------------------------------------------------------------------------
(* class Keybinding *)

Keybinding(in_string, widget) == [in_string |-> in_string, widget |-> widget]

\* Keybinding.PREFIXES, as the list whose enumerate() gives the ranks 0..9.
PREFIXES ==
    << <<"^">>,
       <<"^", "[">>,
       <<"^", "[", "^">>,
       <<"M", "-">>,
       <<"M", "-", "^">>,
       <<"^", "X">>,
       <<"^", "X", "^">>,
       <<"^", "[", "[">>,
       <<"^", "[", "O">>,
       <<"^", "[", "[", "3">> >>

IGNORE_WIDGETS ==
    { <<"b", "r", "a", "c", "k", "e", "t", "e", "d", "-", "p", "a", "s", "t", "e">>,
      <<"d", "i", "g", "i", "t", "-", "a", "r", "g", "u", "m", "e", "n", "t">>,
      <<"n", "e", "g", "-", "a", "r", "g", "u", "m", "e", "n", "t">>,
      <<"s", "e", "l", "f", "-", "i", "n", "s", "e", "r", "t", "-", "u", "n", "m", "e", "t", "a">> }

\* The rank PREFIXES.get(prefix, 999) gives a prefix that is not in the table.
DefaultRank == 999

\* in_string[:-1]: slicing never fails, the prefix of "" is "".
prefix(b) == SubSeq(b.in_string, 1, Len(b.in_string) - 1)

\* in_string[-1] raises IndexError on the empty string.
character_raises(b) == b.in_string = <<>>

character(b) == b.in_string[Len(b.in_string)]

\* prefix_rank with PREFIXES.get(prefix, 0): an unknown prefix ranks first.
prefix_rank_unknown_first(b) ==
    IF \E i \in 1..Len(PREFIXES) : PREFIXES[i] = prefix(b)
    THEN (CHOOSE i \in 1..Len(PREFIXES) : PREFIXES[i] = prefix(b)) - 1
    ELSE 0

prefix_rank(b) ==
    IF \E i \in 1..Len(PREFIXES) : PREFIXES[i] = prefix(b)
    THEN (CHOOSE i \in 1..Len(PREFIXES) : PREFIXES[i] = prefix(b)) - 1
    ELSE DefaultRank

\* (prefix_rank, character.upper()), defined when character does not raise.
prefix_comparison(b) == <<prefix_rank(b), upper(character(b))>>

\* (widget, prefix_rank, character.upper())
widget_comparison(b) == <<b.widget>> \o prefix_comparison(b)

\* Python's tuple order on the two kinds of key: component by component.
prefix_key_less(k1, k2) ==
    \/ k1[1] < k2[1]
    \/ k1[1] = k2[1] /\ ord[k1[2]] < ord[k2[2]]

widget_key_less(k1, k2) ==
    \/ StrLess(k1[1], k2[1])
    \/ k1[1] = k2[1] /\ prefix_key_less(Tail(k1), Tail(k2))

key_less(k1, k2) ==
    IF Len(k1) = 3 THEN widget_key_less(k1, k2) ELSE prefix_key_less(k1, k2)

\* insort of a sort that is not stable: an item goes before the items whose keys
\* compare equal to its own.
RECURSIVE insort_before_equal(_, _)
insort_before_equal(s, x) ==
    IF s = <<>> THEN <<x>>
    ELSE IF ~key_less(Head(s).key, x.key) THEN <<x>> \o s
    ELSE <<Head(s)>> \o insort_before_equal(Tail(s), x)

\* sorted(items, key=key): the keys are computed for every item (keys_by_... is the
\* list of them, sorted takes it as its second argument), then the items are put in non-decreasing key order; the sort is stable, items whose keys
\* compare equal keep the order they had in the input.
RECURSIVE insort(_, _)
insort(s, x) ==
    IF s = <<>> THEN <<x>>
    ELSE IF key_less(x.key, Head(s).key) THEN <<x>> \o s
    ELSE <<Head(s)>> \o insort(Tail(s), x)

RECURSIVE sort_keyed(_)
sort_keyed(items) ==
    IF items = <<>> THEN <<>>
    ELSE insort(sort_keyed(SubSeq(items, 1, Len(items) - 1)), items[Len(items)])

keys_by_prefix_comparison(bs) == [i \in 1..Len(bs) |-> prefix_comparison(bs[i])]

keys_by_widget_comparison(bs) == [i \in 1..Len(bs) |-> widget_comparison(bs[i])]

sorted(bs, keys) ==
    LET keyed == [i \in 1..Len(bs) |-> [key |-> keys[i], item |-> bs[i]]]
        s == sort_keyed(keyed)
    IN  [i \in 1..Len(bs) |-> s[i].item]

\* sorted() calls the key function on every item: it raises when one call raises.
sorted_raises(bs) == \E i \in 1..Len(bs) : character_raises(bs[i])

----------------------------------------------------------------------------
(* parse_bindkey *)

\* The literal head of the pattern: bindkey "
PatternHead == <<"b", "i", "n", "d", "k", "e", "y", " ", "\"">>

\* re.match(r'bindkey "(?P<in_string>.+)" (?P<widget>.+)', line). The match is
\* anchored at the start of the line. Each .+ takes one or more characters; the
\* first is greedy, so the closing quote is the last quote-and-space of the line
\* that leaves both groups non-empty, and the second runs to the end of the
\* line. The value is the set of positions the closing quote can have.
match_ends(line) ==
    IF Len(line) >= Len(PatternHead) /\ SubSeq(line, 1, Len(PatternHead)) = PatternHead
    THEN {k \in (Len(PatternHead) + 2)..(Len(line) - 2) :
              line[k] = "\"" /\ line[k + 1] = " "}
    ELSE {}

re_match(line) ==
    IF match_ends(line) = {} THEN <<>>
    ELSE LET k == max(match_ends(line))
         IN  << SubSeq(line, Len(PatternHead) + 1, k - 1),
                SubSeq(line, k + 2, Len(line)) >>

\* parse_line without the replace() of line 152: the backslashes stay.
parse_line_keeping_backslashes(line) ==
    LET match == re_match(line)
    IN  IF match = <<>> THEN <<>>
        ELSE IF match[2] \in IGNORE_WIDGETS THEN <<>>
        ELSE << Keybinding(match[1], match[2]) >>

\* One iteration of the loop of parse_bindkey: the Keybinding objects the line
\* yields, none or one.
parse_line(line) ==
    LET match == re_match(line)
    IN  IF match = <<>> THEN <<>>
        ELSE IF match[2] \in IGNORE_WIDGETS THEN <<>>
        ELSE << Keybinding(remove(match[1], "\\"), match[2]) >>

RECURSIVE parse_bindkey(_)
parse_bindkey(lines) ==
    IF lines = <<>> THEN <<>>
    ELSE parse_line(Head(lines)) \o parse_bindkey(Tail(lines))

----------------------------------------------------------------------------
(* The display functions *)

\* group_bindings: a dict of lists in insertion order, as a sequence of
\* [key, values] entries. A binding is appended to the list of its key, which is
\* created at the end of the dict when the key is new.
group_append(group, k, v) ==
    IF \E i \in 1..Len(group) : group[i].key = k
    THEN [i \in 1..Len(group) |->
             IF group[i].key = k
             THEN [key |-> k, values |-> Append(group[i].values, v)]
             ELSE group[i]]
    ELSE Append(group, [key |-> k, values |-> <<v>>])

RECURSIVE group_pairs(_)
group_pairs(pairs) ==
    IF pairs = <<>> THEN <<>>
    ELSE group_append(group_pairs(SubSeq(pairs, 1, Len(pairs) - 1)),
                      pairs[Len(pairs)][1], pairs[Len(pairs)][2])

\* getattr(binding, name) for the attribute names the display functions pass.
getattr(b, name) ==
    CASE name = "widget" -> b.widget
      [] name = "in_string" -> b.in_string
      [] name = "prefix" -> prefix(b)
      [] name = "character" -> character(b)

group_bindings(bs, key_attr, value_attr) ==
    group_pairs([i \in 1..Len(bs) |-> <<getattr(bs[i], key_attr), getattr(bs[i], value_attr)>>])

\* What running a display generator up to its first yield gives: the exception it
\* raised ("none" when it raised none), the rows it iterates over (the items of
\* the dict of group_bindings, or the sorted bindings) and the lines it yields,
\* one for each row.
Raised(exc) == [raised |-> exc, rows |-> <<>>, lines |-> <<>>]
Yielded(items, lines) == [raised |-> "none", rows |-> items, lines |-> lines]

\* The width added to the longest key and, in group_by_widget, to the longest value.
Padding == 4

\* format_each with the values padded to the longest value only.
format_each_without_padding(strs, width) ==
    [i \in 1..Len(strs) |-> format(strs[i], width - Padding)]

format_each(strs, width) == [i \in 1..Len(strs) |-> format(strs[i], width)]

\* The rows of the sorted displays: one for each binding, in_string and widget.
binding_rows(ordered) ==
    [i \in 1..Len(ordered) |-> [key |-> ordered[i].in_string, values |-> <<ordered[i].widget>>]]

group_by_widget(bs) ==
    IF sorted_raises(bs) THEN Raised("IndexError")
    ELSE IF bs = <<>> THEN Raised("ValueError")
    ELSE
      LET widgets == group_bindings(sorted(bs, keys_by_widget_comparison(bs)), "widget", "in_string")
          widget_width == max({Len(bs[i].widget) : i \in 1..Len(bs)}) + Padding
          in_string_width == max({Len(bs[i].in_string) : i \in 1..Len(bs)}) + Padding
      IN  Yielded(widgets, [i \in 1..Len(widgets) |->
              format(widgets[i].key, widget_width)
                  \o strip(join(<<" ">>, format_each(widgets[i].values, in_string_width)))])

group_by_prefix(bs) ==
    IF sorted_raises(bs) THEN Raised("IndexError")
    ELSE IF bs = <<>> THEN Raised("ValueError")
    ELSE
      LET prefixes == group_bindings(sorted(bs, keys_by_prefix_comparison(bs)), "prefix", "character")
          prefix_width == max({Len(prefix(bs[i])) : i \in 1..Len(bs)}) + Padding
      IN  Yielded(prefixes, [i \in 1..Len(prefixes) |->
              format(prefixes[i].key, prefix_width)
                  \o strip(join(<<" ">>, [j \in 1..Len(prefixes[i].values) |->
                                              <<prefixes[i].values[j]>>]))])

sort_by_in_string(bs) ==
    IF bs = <<>> THEN Raised("ValueError")
    ELSE IF sorted_raises(bs) THEN Raised("IndexError")
    ELSE
      LET in_string_width == max({Len(bs[i].in_string) : i \in 1..Len(bs)}) + Padding
          ordered == sorted(bs, keys_by_prefix_comparison(bs))
      IN  Yielded(binding_rows(ordered), [i \in 1..Len(bs) |->
              format(ordered[i].in_string, in_string_width) \o ordered[i].widget])

sort_by_widget(bs) ==
    IF bs = <<>> THEN Raised("ValueError")
    ELSE IF sorted_raises(bs) THEN Raised("IndexError")
    ELSE
      LET in_string_width == max({Len(bs[i].in_string) : i \in 1..Len(bs)}) + Padding
          ordered == sorted(bs, keys_by_widget_comparison(bs))
      IN  Yielded(binding_rows(ordered), [i \in 1..Len(bs) |->
              format(ordered[i].in_string, in_string_width) \o ordered[i].widget])

----------------------------------------------------------------------------
(* The input lines main() reads, from the file or from bindkey -L *)

\* Widget names, as str.
clear_screen == <<"c", "l", "e", "a", "r", "-", "s", "c", "r", "e", "e", "n">>
undo == <<"u", "n", "d", "o">>
push_line == <<"p", "u", "s", "h", "-", "l", "i", "n", "e">>
bracketed_paste == <<"b", "r", "a", "c", "k", "e", "t", "e", "d", "-", "p", "a", "s", "t", "e">>
digit_argument == <<"d", "i", "g", "i", "t", "-", "a", "r", "g", "u", "m", "e", "n", "t">>
neg_argument == <<"n", "e", "g", "-", "a", "r", "g", "u", "m", "e", "n", "t">>
self_insert_unmeta == <<"s", "e", "l", "f", "-", "i", "n", "s", "e", "r", "t", "-", "u", "n", "m", "e", "t", "a">>
self_insert == <<"s", "e", "l", "f", "-", "i", "n", "s", "e", "r", "t">>
forward_word == <<"f", "o", "r", "w", "a", "r", "d", "-", "w", "o", "r", "d">>
backward_word == <<"b", "a", "c", "k", "w", "a", "r", "d", "-", "w", "o", "r", "d">>
expand_history == <<"e", "x", "p", "a", "n", "d", "-", "h", "i", "s", "t", "o", "r", "y">>
magic_space == <<"m", "a", "g", "i", "c", "-", "s", "p", "a", "c", "e">>
up_line == <<"u", "p", "-", "l", "i", "n", "e">>
quote_region == <<"q", "u", "o", "t", "e", "-", "r", "e", "g", "i", "o", "n">>

\* The line bindkey -L prints for a binding: bindkey "<raw>" <widget>
BindkeyLine(raw, widget) == PatternHead \o raw \o <<"\"", " ">> \o widget

\* Lines of a key binding table: bindings of the test of the script, a binding
\* of a second widget to the same in-string, a line of an ignored widget and a
\* binding of the backslash key.
Lines ==
    { BindkeyLine(<<"^", "L">>, clear_screen),
      BindkeyLine(<<"^", "[", "^", "L">>, clear_screen),
      BindkeyLine(<<"^", "X", "u">>, undo),
      BindkeyLine(<<"^", "X", "^", "U">>, undo),
      BindkeyLine(<<"^", "[", "q">>, push_line),
      BindkeyLine(<<"^", "[", "Q">>, push_line),
      BindkeyLine(<<"\\", "M", "-", "q">>, push_line),
      BindkeyLine(<<"^", "L">>, undo),
      BindkeyLine(<<"^", "[", "[", "2", "0", "0", "~">>, bracketed_paste),
      BindkeyLine(<<"\\", "\\">>, undo) }

\* Lines whose in-strings have prefixes outside PREFIXES (the modified arrow
\* keys) and lines that bind the space character.
GroupLines ==
    { BindkeyLine(<<"^", "[", "[", "1", ";", "5", "C">>, forward_word),
      BindkeyLine(<<"^", "[", "[", "1", ";", "3", "C">>, forward_word),
      BindkeyLine(<<"^", "[", "[", "1", ";", "5", "D">>, backward_word),
      BindkeyLine(<<"^", "[", " ">>, expand_history),
      BindkeyLine(<<" ">>, magic_space),
      BindkeyLine(<<"^", "[", "!">>, expand_history),
      BindkeyLine(<<"^", "[", "[", "A">>, up_line),
      BindkeyLine(<<"^", "Q">>, push_line),
      BindkeyLine(<<"^", "[", "q">>, push_line),
      BindkeyLine(<<"^", "[", "[", "2", "0", "0", "~">>, bracketed_paste),
      BindkeyLine(<<"\\">>, undo) }

\* Lines of every shape the parser tells apart: matching lines, with and without
\* backslashes and quotes in the in-string, a line of each ignored widget, and
\* lines the pattern does not match.
ParseLines ==
    { BindkeyLine(<<"^", "L">>, undo),
      BindkeyLine(<<"\\", "M", "-", "\\", "$">>, self_insert),
      BindkeyLine(<<"\\">>, undo),
      BindkeyLine(<<"\\", "\\">>, undo),
      BindkeyLine(<<"^", "[", "\\", "\"">>, quote_region),
      BindkeyLine(<<"^", "[", "[", "2", "0", "0", "~">>, bracketed_paste),
      BindkeyLine(<<"^", "[", "1">>, digit_argument),
      BindkeyLine(<<"^", "[", "-">>, neg_argument),
      BindkeyLine(<<"\\", "M", "-", "a">>, self_insert_unmeta),
      BindkeyLine(<<"a", "\"", " ", "b">>, undo),
      BindkeyLine(<<"a", "\"", " ", "b">>, neg_argument),
      BindkeyLine(<<"^", "L">>, undo \o <<" ">> \o clear_screen),
      BindkeyLine(<<"^", "L">>, <<" ">> \o undo),
      BindkeyLine(<<"^", "X">>, neg_argument \o <<" ">>),
      <<>>,
      <<"#", " ", "k", "e", "y", " ", "b", "i", "n", "d", "i", "n", "g", "s">>,
      <<"b", "i", "n", "d", "k", "e", "y", " ", "\"", "^", "L", "\"">>,
      <<"b", "i", "n", "d", "k", "e", "y", " ", "\"", "^", "L", "\"", " ">>,
      <<"b", "i", "n", "d", "k", "e", "y", " ", "\"", "\"", " ", "u", "n", "d", "o">>,
      <<" ", "b", "i", "n", "d", "k", "e", "y", " ", "\"", "^", "L", "\"", " ", "u", "n", "d", "o">>,
      <<"b", "i", "n", "d", "k", "e", "y", " ", "-", "R", " ", "\"", "a", "\"", "-", "\"", "z", "\"", " ", "s", "e", "l", "f", "-", "i", "n", "s", "e", "r", "t">>,
      <<"b", "i", "n", "d", "k", "e", "y", " ", "^", "L", " ", "u", "n", "d", "o">>,
      <<"b", "i", "n", "d", "k", "e", "y", " ", "\"", "^", "L", "\"", "u", "n", "d", "o">> }

\* The in-strings the ranking is compared on: every prefix of PREFIXES, the empty
\* prefix and a prefix outside PREFIXES, each followed by a letter in both cases and by
\* a character above the letters.
RankPrefixes ==
    { <<"^">>,
      <<"^", "[">>,
      <<"^", "[", "^">>,
      <<"M", "-">>,
      <<"M", "-", "^">>,
      <<"^", "X">>,
      <<"^", "X", "^">>,
      <<"^", "[", "[">>,
      <<"^", "[", "O">>,
      <<"^", "[", "[", "3">>,
      <<>>,
      <<"^", "[", "[", "1">> }

RankCharacters == {"Q", "q", "~"}

RankLines ==
    {BindkeyLine(Append(p, c), undo) : p \in RankPrefixes, c \in RankCharacters}
        \cup {BindkeyLine(<<"^", "[", "1">>, digit_argument), BindkeyLine(<<"\\">>, undo)}

\* The sequences of at most n lines of a set.
RECURSIVE SeqsUpTo(_, _)
SeqsUpTo(S, n) ==
    IF n = 0 THEN {<<>>}
    ELSE LET shorter == SeqsUpTo(S, n - 1)
         IN  shorter \cup {Append(s, x) : s \in {t \in shorter : Len(t) = n - 1}, x \in S}

\* The longest input of each specification, in lines.
MaxLines == 3
MaxGroupLines == 3
MaxParseLines == 2
MaxRankLines == 2

----------------------------------------------------------------------------
(* main *)

\* The display function main() selects: args.widget, args.prefix, args.in_string,
\* or none of them.
Modes == {"widget", "prefix", "in_string", "default"}

\* main() up to the call of parse_bindkey: the arguments are parsed and the input
\* lines acquired.
InitWith(lines) ==
    /\ input_lines \in lines
    /\ mode \in Modes
    /\ lines_read = 0
    /\ bindings = <<>>
    /\ rows = <<>>
    /\ output_lines = <<>>
    /\ stdout = <<>>
    /\ error = "none"
    /\ pc = "parse"

Init == InitWith(SeqsUpTo(Lines, MaxLines))

\* bindings = list(parse_bindkey(input_lines)), one line of the input at a time.
ParseLine ==
    /\ pc = "parse"
    /\ lines_read < Len(input_lines)
    /\ bindings' = bindings \o parse_line(input_lines[lines_read + 1])
    /\ lines_read' = lines_read + 1
    /\ UNCHANGED <<input_lines, mode, rows, output_lines, stdout, error, pc>>

\* The display generator runs up to its first yield, or raises: the exception
\* ends main() with nothing printed.
Display(result) ==
    /\ error' = result.raised
    /\ rows' = result.rows
    /\ output_lines' = result.lines
    /\ pc' = IF result.raised = "none" THEN "print" ELSE "done"
    /\ UNCHANGED <<input_lines, lines_read, bindings, mode, stdout>>

GroupByWidget ==
    /\ pc = "parse" /\ lines_read = Len(input_lines) /\ mode = "widget"
    /\ Display(group_by_widget(bindings))

GroupByPrefix ==
    /\ pc = "parse" /\ lines_read = Len(input_lines) /\ mode = "prefix"
    /\ Display(group_by_prefix(bindings))

SortByInString ==
    /\ pc = "parse" /\ lines_read = Len(input_lines) /\ mode = "in_string"
    /\ Display(sort_by_in_string(bindings))

SortByWidget ==
    /\ pc = "parse" /\ lines_read = Len(input_lines) /\ mode = "default"
    /\ Display(sort_by_widget(bindings))

\* for line in output_lines: print(line)
PrintLine ==
    /\ pc = "print"
    /\ output_lines # <<>>
    /\ stdout' = Append(stdout, Head(output_lines))
    /\ output_lines' = Tail(output_lines)
    /\ UNCHANGED <<input_lines, lines_read, bindings, mode, rows, error, pc>>

Return ==
    /\ pc = "print"
    /\ output_lines = <<>>
    /\ pc' = "done"
    /\ UNCHANGED <<input_lines, lines_read, bindings, mode, rows, output_lines, stdout, error>>

Next ==
    \/ ParseLine
    \/ GroupByWidget
    \/ GroupByPrefix
    \/ SortByInString
    \/ SortByWidget
    \/ PrintLine
    \/ Return

Spec == Init /\ [][Next]_vars

InitGroup == InitWith(SeqsUpTo(GroupLines, MaxGroupLines))
SpecGroup == InitGroup /\ [][Next]_vars

InitParse == InitWith(SeqsUpTo(ParseLines, MaxParseLines))
SpecParse == InitParse /\ [][Next]_vars

\* The runs that sort by in-string, the display that orders by prefix_comparison
\* alone.
InitRank == InitWith(SeqsUpTo(RankLines, MaxRankLines)) /\ mode = "in_string"

NextRank ==
    \/ ParseLine
    \/ SortByInString
    \/ PrintLine
    \/ Return

SpecRank == InitRank /\ [][NextRank]_vars

----------------------------------------------------------------------------
(* Properties *)

Done == pc = "done"

\* s left-justified in a field of w columns.
Pad(s, w) ==
    [i \in 1..(IF Len(s) > w THEN Len(s) ELSE w) |-> IF i <= Len(s) THEN s[i] ELSE " "]

\* The permutations of 1..n.
Perms(n) == {f \in [1..n -> 1..n] : \A i, j \in 1..n : f[i] = f[j] => i = j}

\* The ways to read a line as  bindkey "<seq>" <action>  with a non-empty <seq>
\* and a non-empty <action> that runs to the end of the line.
Shapes(line) ==
    LET seq(k) == SubSeq(line, Len(PatternHead) + 1, k - 1)
        action(k) == SubSeq(line, k + 2, Len(line))
    IN  { <<seq(k), action(k)>> :
            k \in {k \in 1..Len(line) :
                     /\ seq(k) # <<>>
                     /\ action(k) # <<>>
                     /\ line = PatternHead \o seq(k) \o <<"\"", " ">> \o action(k)} }

IsNotBackslash(c) == c # "\\"

\* The four actions the parser ignores.
IgnoredActions == {bracketed_paste, digit_argument, neg_argument, self_insert_unmeta}

\* What a line may yield: a Binding of one of its shapes whose action is not
\* ignored, or nothing when it has no shape or a shape with an ignored action.
AllowedYields(line) ==
    { << [in_string |-> SelectSeq(d[1], IsNotBackslash), widget |-> d[2]] >> :
        d \in {d \in Shapes(line) : d[2] \notin IgnoredActions} }
    \cup (IF Shapes(line) = {} \/ \E d \in Shapes(line) : d[2] \in IgnoredActions
          THEN {<<>>} ELSE {})

RECURSIVE AllowedParses(_)
AllowedParses(lines) ==
    IF lines = <<>> THEN {<<>>}
    ELSE {p \o y : p \in AllowedParses(SubSeq(lines, 1, Len(lines) - 1)),
                   y \in AllowedYields(lines[Len(lines)])}

\* C3: after any number of lines, the bindings parsed are, in input order, one
\* Binding for each line read that has the shape  bindkey "<seq>" <action>  with
\* an action that is not ignored (in_string = <seq> without its backslashes,
\* widget = <action>) and nothing for every other line; parsing raises nothing.
ParseYieldsOneBindingPerBindkeyLine ==
    /\ bindings \in AllowedParses(SubSeq(input_lines, 1, lines_read))
    /\ pc = "parse" => error = "none"

\* C3 witness: a line with backslashes has yielded M-$ and a line of an ignored
\* widget has yielded nothing.
ParsedEscapedLineAndSkippedIgnoredLine ==
    /\ lines_read = 2
    /\ input_lines[1] = BindkeyLine(<<"\\", "M", "-", "\\", "$">>, self_insert)
    /\ input_lines[2] = BindkeyLine(<<"^", "[", "[", "2", "0", "0", "~">>, bracketed_paste)
    /\ bindings = << Keybinding(<<"M", "-", "$">>, self_insert) >>

\* C6: every Binding the parser yields has a non-empty in_string and a non-empty
\* widget.
ParsedBindingsAreNonEmpty ==
    \A i \in 1..Len(bindings) :
        bindings[i].in_string # <<>> /\ bindings[i].widget # <<>>

\* C2: a run that parsed no binding ends in an error that reports the empty
\* result: it does not succeed with nothing printed, and it does not end in the
\* ValueError of max() of an empty sequence; it has printed nothing.
EmptyResultIsReported ==
    (Done /\ bindings = <<>>) =>
        /\ error \notin {"none", "ValueError"}
        /\ stdout = <<>>

----------------------------------------------------------------------------
(* The comparison keys *)

\* The prefix table of the ranking, ranks 0..9 in this order.
PrefixTable ==
    << <<"^">>, <<"^", "[">>, <<"^", "[", "^">>, <<"M", "-">>, <<"M", "-", "^">>,
       <<"^", "X">>, <<"^", "X", "^">>, <<"^", "[", "[">>, <<"^", "[", "O">>,
       <<"^", "[", "[", "3">> >>

InTable(b) == \E r \in 1..Len(PrefixTable) : PrefixTable[r] = prefix(b)
TableRank(b) == (CHOOSE r \in 1..Len(PrefixTable) : PrefixTable[r] = prefix(b)) - 1

\* The bindings that have a character, and so a comparison key.
HasCharacter(b) == b.in_string # <<>>
AllHaveCharacter(bs) == \A i \in 1..Len(bs) : HasCharacter(bs[i])

\* C5: of two bindings with table prefixes, the one whose prefix ranks lower has
\* the strictly smaller prefix comparison key, whatever the final characters; a
\* binding with a prefix outside the table has a strictly greater key than any
\* binding with a table prefix. Sorted by in-string, the rows follow that order.
PrefixRankDecidesPrefixComparison ==
    /\ \A i, j \in 1..Len(bindings) :
          (HasCharacter(bindings[i]) /\ HasCharacter(bindings[j]) /\ InTable(bindings[i])) =>
              LET ki == prefix_comparison(bindings[i])
                  kj == prefix_comparison(bindings[j])
              IN  /\ (InTable(bindings[j]) /\ TableRank(bindings[i]) < TableRank(bindings[j]))
                         => prefix_key_less(ki, kj)
                  /\ ~InTable(bindings[j]) => prefix_key_less(ki, kj)
    /\ (Done /\ mode = "in_string" /\ error = "none") =>
          \A r, t \in 1..Len(rows) :
              LET br == Keybinding(rows[r].key, rows[r].values[1])
                  bt == Keybinding(rows[t].key, rows[t].values[1])
              IN  (InTable(br) /\ (~InTable(bt) \/ TableRank(br) < TableRank(bt))) => r < t

\* C5 witness: a binding of the last table prefix and a low character was read
\* before a binding of the first table prefix and the highest character, and is
\* printed after it.
LowRankHighCharacterPrintedFirst ==
    /\ Done /\ mode = "in_string"
    /\ Len(bindings) = 2
    /\ bindings[1].in_string = <<"^", "[", "[", "3", "Q">>
    /\ bindings[2].in_string = <<"^", "~">>
    /\ Len(stdout) = 2
    /\ rows[1].key = <<"^", "~">>

----------------------------------------------------------------------------
(* The sorted displays *)

Distinct(bs) == \A i, j \in 1..Len(bs) : bs[i] = bs[j] => i = j

Reorder(bs, f) == [i \in 1..Len(bs) |-> bs[f[i]]]

LongestInString(bs) == max({Len(bs[i].in_string) : i \in 1..Len(bs)})

\* The line of a binding in the sorted displays.
BindingLine(b, bs) == Pad(b.in_string, LongestInString(bs) + 4) \o b.widget

KeyOf(m, b) == IF m = "in_string" THEN prefix_comparison(b) ELSE widget_comparison(b)

\* The lines a run on the bindings bs prints in a sorted mode.
PrintedFor(m, bs) ==
    IF m = "in_string" THEN sort_by_in_string(bs).lines ELSE sort_by_widget(bs).lines

\* The printed lines are the lines of the bindings in the order g, which is in
\* non-decreasing key order.
PrintedInKeyOrder(m, g) ==
    /\ \A i \in 1..Len(bindings) : stdout[i] = BindingLine(bindings[g[i]], bindings)
    /\ \A i, j \in 1..Len(bindings) :
          i < j => ~key_less(KeyOf(m, bindings[g[j]]), KeyOf(m, bindings[g[i]]))

\* C1: in default mode a non-empty list of parsed bindings is printed one line
\* for each binding, in non-decreasing order of the widget comparison key, each
\* line the in_string left-justified to the longest in_string + 4, then the widget.
DefaultOutputIsSortedByWidget ==
    (Done /\ mode = "default" /\ bindings # <<>>) =>
        /\ Len(stdout) = Len(bindings)
        /\ \E g \in Perms(Len(bindings)) : PrintedInKeyOrder("default", g)

\* C1, for the lists whose bindings all have a character.
DefaultOutputIsSortedGivenCharacters ==
    (Done /\ mode = "default" /\ bindings # <<>> /\ AllHaveCharacter(bindings)) =>
        /\ Len(stdout) = Len(bindings)
        /\ \E g \in Perms(Len(bindings)) : PrintedInKeyOrder("default", g)

\* C10 as stated: the lines a sorted mode prints for a list of distinct bindings
\* are the lines it prints for every other line order of the same bindings.
SortedOutputIgnoresLineOrder ==
    (Done /\ mode \in {"in_string", "default"} /\ Distinct(bindings)) =>
        \A f \in Perms(Len(bindings)) : PrintedFor(mode, Reorder(bindings, f)) = stdout

\* The order f leaves the bindings with equal keys in the order they have in the
\* input (no key is computed in a run that raised).
KeepsTies(m, f) ==
    error = "none" =>
        \A i, j \in 1..Len(bindings) :
            (i < j /\ KeyOf(m, bindings[f[i]]) = KeyOf(m, bindings[f[j]])) => f[i] < f[j]

\* C10 as amended: the sort is stable. The lines are printed in non-decreasing
\* key order with the bindings of equal keys in input line order, and every line
\* order of the same distinct bindings that keeps the bindings of equal keys in
\* the same relative order prints the same lines.
SortedOutputIsStable ==
    (Done /\ mode \in {"in_string", "default"} /\ Distinct(bindings)) =>
        /\ error = "none" =>
              \E g \in Perms(Len(bindings)) :
                  /\ PrintedInKeyOrder(mode, g)
                  /\ KeepsTies(mode, g)
        /\ \A f \in Perms(Len(bindings)) :
              KeepsTies(mode, f) => PrintedFor(mode, Reorder(bindings, f)) = stdout

\* C10 witness: ^[q and ^[Q, bound to the same widget, were read in this order
\* and are printed in this order.
EqualKeysPrintedInInputOrder ==
    /\ Done /\ mode = "in_string" /\ error = "none"
    /\ Len(bindings) = 2
    /\ bindings[1] = Keybinding(<<"^", "[", "q">>, push_line)
    /\ bindings[2] = Keybinding(<<"^", "[", "Q">>, push_line)
    /\ stdout = << BindingLine(bindings[1], bindings), BindingLine(bindings[2], bindings) >>

----------------------------------------------------------------------------
(* The grouped displays *)

\* The places of the rows where the value v stands: row and position in the row.
Places(v) ==
    {<<r, k>> \in (1..Len(rows)) \X (1..Len(bindings)) :
        k <= Len(rows[r].values) /\ rows[r].values[k] = v}

\* C4: grouped by widget, a non-empty list of parsed bindings gives rows that
\* hold every distinct in_string of the list exactly once in all, in the row of
\* its widget (stated of the runs that print their rows).
GroupByWidgetHoldsEachInStringOnce ==
    (Done /\ mode = "widget" /\ bindings # <<>> /\ error = "none") =>
        \A i \in 1..Len(bindings) :
            /\ Cardinality(Places(bindings[i].in_string)) = 1
            /\ \E pl \in Places(bindings[i].in_string) : rows[pl[1]].key = bindings[i].widget

\* C4, for the bindings as parsed and not for their distinct in_strings: when
\* every binding has a character, the row of a widget holds an in_string as many
\* times as the list holds the binding of that in_string to that widget, and no
\* widget has two rows.
GroupByWidgetHoldsEachBindingOnce ==
    (Done /\ mode = "widget" /\ bindings # <<>> /\ AllHaveCharacter(bindings)) =>
        /\ \A r, t \in 1..Len(rows) : rows[r].key = rows[t].key => r = t
        /\ \A r \in 1..Len(rows) : \A k \in 1..Len(rows[r].values) :
              Cardinality({j \in 1..Len(rows[r].values) :
                              rows[r].values[j] = rows[r].values[k]})
                = Cardinality({i \in 1..Len(bindings) :
                                  bindings[i] = Keybinding(rows[r].values[k], rows[r].key)})
        /\ \A i \in 1..Len(bindings) :
              \E pl \in Places(bindings[i].in_string) : rows[pl[1]].key = bindings[i].widget

\* The values of a row, each in a field of w columns, joined by single spaces:
\* value k starts (k - 1) * (w + 1) columns after the first.
Joined(values, w) ==
    [c \in 1..(Len(values) * (w + 1) - 1) |->
        LET k == ((c - 1) \div (w + 1)) + 1
            col == ((c - 1) % (w + 1)) + 1
        IN  IF col <= Len(values[k]) THEN values[k][col] ELSE " "]

LongestWidget(bs) == max({Len(bs[i].widget) : i \in 1..Len(bs)})
LongestPrefix(bs) == max({Len(prefix(bs[i])) : i \in 1..Len(bs)})

\* s occupies the columns of the line that start after the column `after`.
StandsAt(line, after, s) ==
    /\ Len(line) >= after + Len(s)
    /\ SubSeq(line, after + 1, after + Len(s)) = s

\* C7 as stated: grouped by widget, every value of a row is padded to the longest
\* in_string, nothing added, and the values are joined by single spaces, so that
\* consecutive values start the longest in_string + 1 columns apart; the line is
\* the padded key and the joined values, stripped.
GroupedValuesPaddedToLongest ==
    (Done /\ mode = "widget" /\ error = "none") =>
        \A r \in 1..Len(rows) :
            stdout[r] = Pad(rows[r].key, LongestWidget(bindings) + 4)
                          \o strip(Joined(rows[r].values, LongestInString(bindings)))

\* C7 as amended: grouped by widget, every value of a row is padded to the
\* longest in_string + 4 and the values are joined by single spaces, so that in
\* the joined values consecutive values start the longest in_string + 5 columns
\* apart; the line is the padded key and the joined values, stripped.
GroupedValuesPaddedToLongestPlusFour ==
    (Done /\ mode = "widget" /\ error = "none") =>
        /\ Len(stdout) = Len(rows)
        /\ \A r \in 1..Len(rows) :
              stdout[r] = Pad(rows[r].key, LongestWidget(bindings) + 4)
                            \o strip(Joined(rows[r].values, LongestInString(bindings) + 4))

\* C7 witness: a row of two values is printed, the second value starting the
\* longest in_string + 5 columns after the first.
TwoValuesPrintedInOneRow ==
    /\ Done /\ mode = "widget" /\ error = "none"
    /\ Len(stdout) = 1
    /\ rows[1].values = << <<"^", "[", "[", "1", ";", "5", "C">>, <<"^", "[", "[", "1", ";", "3", "C">> >>
    /\ StandsAt(stdout[1], Len(forward_word) + 4, rows[1].values[1])
    /\ StandsAt(stdout[1], Len(forward_word) + 4 + 7 + 5, rows[1].values[2])

\* C8: in the grouped modes only the whitespace at the end of the joined values
\* of a row is removed: the line is the padded key and the joined values with
\* their leading whitespace, the first value starting right after the key column.
GroupedRowsKeepLeadingWhitespace ==
    (Done /\ mode \in {"widget", "prefix"} /\ error = "none") =>
        \A r \in 1..Len(rows) :
            stdout[r] =
                IF mode = "widget"
                THEN Pad(rows[r].key, LongestWidget(bindings) + 4)
                        \o rstrip(Joined(rows[r].values, LongestInString(bindings) + 4))
                ELSE Pad(rows[r].key, LongestPrefix(bindings) + 4)
                        \o rstrip(Joined([k \in 1..Len(rows[r].values) |-> <<rows[r].values[k]>>], 1))

\* The bindings in the order group_by_prefix groups them in.
ByPrefixComparison(bs) == sorted(bs, keys_by_prefix_comparison(bs))

FirstIndex(bs, p) == CHOOSE i \in 1..Len(bs) : prefix(bs[i]) = p /\ \A j \in 1..(i - 1) : prefix(bs[j]) # p

HasPrefix(b, p) == prefix(b) = p

\* The rows are one for each distinct prefix, in the order in which the
\* prefixes first occur in the sorted bindings, each with the characters of all
\* the bindings of its prefix in sorted order.
OneRowPerPrefix ==
    LET ordered == ByPrefixComparison(bindings)
    IN  /\ \A r, t \in 1..Len(rows) :
              r < t => FirstIndex(ordered, rows[r].key) < FirstIndex(ordered, rows[t].key)
        /\ \A r \in 1..Len(rows) :
              LET members == SelectSeq(ordered, LAMBDA b : HasPrefix(b, rows[r].key))
              IN  rows[r].values = [k \in 1..Len(members) |-> character(members[k])]

DistinctPrefixes == {prefix(bindings[i]) : i \in 1..Len(bindings)}

\* C9: grouped by prefix, a non-empty list of bindings is printed as one row for
\* each distinct prefix, with the characters of all the bindings of the prefix in
\* prefix comparison order, the rows in the order of first occurrence of their
\* prefixes in the sorted list.
GroupByPrefixHasOneRowPerPrefix ==
    (Done /\ mode = "prefix" /\ bindings # <<>>) =>
        /\ Len(stdout) = Cardinality(DistinctPrefixes)
        /\ Len(rows) = Cardinality(DistinctPrefixes)
        /\ OneRowPerPrefix

\* C9, for the lists whose bindings all have a character.
GroupByPrefixHasOneRowPerPrefixGivenCharacters ==
    (Done /\ mode = "prefix" /\ bindings # <<>> /\ AllHaveCharacter(bindings)) =>
        /\ Len(stdout) = Cardinality(DistinctPrefixes)
        /\ Len(rows) = Cardinality(DistinctPrefixes)
        /\ OneRowPerPrefix

\* The bindings of one prefix outside the table are not adjacent in the sorted
\* list, and their characters stand in one row.
InterleavedPrefixesGrouped ==
    /\ Done /\ mode = "prefix" /\ error = "none"
    /\ Len(bindings) = 3
    /\ Len(rows) = 2
    /\ rows[1] = [key |-> <<"^", "[", "[", "1", ";", "5">>, values |-> <<"C", "D">>]
    /\ rows[2] = [key |-> <<"^", "[", "[", "1", ";", "3">>, values |-> <<"C">>]
    /\ prefix(ByPrefixComparison(bindings)[2]) = rows[2].key

====
